---------------------------- MODULE Spec2Model ----------------------------
(***************************************************************************)
(* Model of the musical-doodle transport core: the server side             *)
(* (src/src/server.rs: listener thread, connection handlers, the player    *)
(* thread behind an mpsc mailbox) and the client main flow                 *)
(* (src/src/client.rs).                                                    *)
(*                                                                         *)
(* The ws transport is the environment.  What the model takes from it:     *)
(*  - one event loop thread runs the factory and every handler callback;   *)
(*  - a ws::Sender is a handle bound to one connection (its token); send,  *)
(*    close and shutdown push a command onto the event loop's queue and    *)
(*    fail only when the event loop is gone;                               *)
(*  - the event loop takes the commands in FIFO order.                     *)
(***************************************************************************)
EXTENDS Naturals, Integers, Sequences, FiniteSets, TLC

\* ------------------------------------------------------------------ bounds
\* Connections the listener accepts in one run.
MaxConns == 2
\* Inbound events (frames and lifecycle events) the listener handles in one
\* run, over all connections.
MaxInbound == 3
\* Events the client's network thread delivers in one run.
MaxEvents == 3

\* ------------------------------------------------------------- state
VARIABLES
    \* --- server ---
    next_conn_id,       \* Connections.next_conn_id
    comms,              \* the IncomingComm handlers, in accept order; the
                        \* index is the transport's token of the connection
    conn_state,         \* conn_state[t]: "handshake" | "open" | "closed"
    listener,           \* "running" | "stopped" | "panicked" (thread "server")
    queue,              \* the event loop's command queue (ws::Sender -> loop)
    outbox,             \* outbox[t]: frames written to connection t's peer
    mailbox,            \* the mpsc channel of ServerRequest
    rx_alive,           \* the mpsc::Receiver has not been dropped
    pc,                 \* position of the player thread in PlayerThread::run
    cur,                \* the ServerRequest being handled (Option as a sequence)
    ws_sender,          \* the local ws_sender of run (Option as a sequence)
    shutdown,           \* PlayerThread.shutdown
    currently_playing,  \* PlayerThread.currently_playing (Option as a sequence)
    main_state,         \* server main: "joining" | "returned" | "panicked"
    logs,               \* the log lines written, as a set of <<level, conn, text>>
    ninbound,           \* inbound events handled so far (bounds the run)
    enq,                \* history: the ServerRequests enqueued, in order
    trace,              \* history: what the player thread did, in order
    \* --- client ---
    cpc,                \* position of client main
    command,            \* the ClientCommand of this run
    message,            \* the Message made from it (Option as a sequence)
    recv_channel,       \* the client's mpsc channel of WSMsg
    sender_slot,        \* Client.sender: Arc<Mutex<Option<ws::Sender>>>
    net_thread,         \* "none" | "running" | "ended" (thread "client")
    delivered,          \* events the network thread has delivered so far
    first_ev,           \* the first event main received (Option as a sequence)
    second_ev,          \* the second event main received (Option as a sequence)
    result,             \* what main returned (Option as a sequence)
    csent,              \* frames the client pushed to its ws::Sender
    cclosed             \* close commands the client pushed

svars == <<next_conn_id, comms, conn_state, listener, queue, outbox, mailbox, rx_alive,
           pc, cur, ws_sender, shutdown, currently_playing, main_state, logs,
           ninbound, enq, trace>>
cvars == <<cpc, command, message, recv_channel, sender_slot, net_thread,
           delivered, first_ev, second_ev, result, csent, cclosed>>
vars == <<svars, cvars>>

\* ------------------------------------------------------------- messages
\* common.rs: Message is Request(Request) | Response(Response).
MsgPlay == [kind |-> "Request", body |-> "Play"]
MsgShutdown == [kind |-> "Request", body |-> "Shutdown"]
MsgOk == [kind |-> "Response", body |-> "Ok"]
Message == {MsgPlay, MsgShutdown, MsgOk}
DecodeError == [kind |-> "DecodeError", body |-> ""]

\* serde_json::to_string of a Message (externally tagged enums; the unit
\* struct PlayReq is null, a unit variant is its name).
Encode(m) ==
    CASE m = MsgPlay -> "{\"Request\":{\"Play\":null}}"
      [] m = MsgShutdown -> "{\"Request\":\"Shutdown\"}"
      [] m = MsgOk -> "{\"Response\":\"Ok\"}"

\* A decode that reads every variant from its name only, PlayReq included.
DecodeNamesOnly(f) ==
    CASE f = "{\"Request\":\"Play\"}" -> MsgPlay
      [] f = "{\"Request\":\"Shutdown\"}" -> MsgShutdown
      [] f = "{\"Response\":\"Ok\"}" -> MsgOk
      [] OTHER -> DecodeError

\* serde_json::from_str::<Message>: a unit variant is read from its name or
\* from a one-entry map to null; anything else is an error.
Decode(f) ==
    CASE f = "{\"Request\":{\"Play\":null}}" -> MsgPlay
      [] f = "{\"Request\":\"Shutdown\"}" -> MsgShutdown
      [] f = "{\"Request\":{\"Shutdown\":null}}" -> MsgShutdown
      [] f = "{\"Response\":\"Ok\"}" -> MsgOk
      [] f = "{\"Response\":{\"Ok\":null}}" -> MsgOk
      [] OTHER -> DecodeError

\* The frames a peer sends in the model: the three encodings and two frames
\* that are no Message.
Frames == {Encode(m) : m \in Message} \cup {"{\"Request\":\"Pause\"}", "play"}


\* ------------------------------------------------------------- server
Tokens == 1..Len(comms)
Alive == listener = "running" /\ main_state = "joining"

\* A line of the log: level, ConnId, text.
Log(level, conn_id, text) == <<level, conn_id, text>>

\* A next_conn_id that returns the counter and leaves it as it is.
ConnectionsNextConnIdNoIncrement(c) == [id |-> c, next |-> c]

\* Connections::next_conn_id: returns the counter and increments it.
ConnectionsNextConnId(c) == [id |-> c, next |-> c + 1]

\* The factory closure of server_spawn: under the connections mutex, takes the
\* next id and builds the IncomingComm of the accepted connection.
Factory ==
    /\ Alive
    /\ Len(comms) < MaxConns
    /\ LET r == ConnectionsNextConnId(next_conn_id)
           t == Len(comms) + 1
       IN /\ next_conn_id' = r.next
          /\ comms' = Append(comms, [id |-> r.id, sender |-> t, shutdown |-> FALSE])
          /\ conn_state' = Append(conn_state, "handshake")
          /\ outbox' = Append(outbox, <<>>)
    /\ UNCHANGED <<listener, queue, mailbox, rx_alive, pc, cur, ws_sender, shutdown,
                   currently_playing, main_state, logs, ninbound, enq, trace>>
    /\ UNCHANGED cvars

\* IncomingComm::on_open -> Server::on_open: logs the open.
OnOpen(t) ==
    /\ Alive
    /\ conn_state[t] = "handshake"
    /\ conn_state' = [conn_state EXCEPT ![t] = "open"]
    /\ logs' = logs \cup {Log("info", comms[t].id, "open")}
    /\ UNCHANGED <<next_conn_id, comms, listener, queue, outbox, mailbox, rx_alive, pc,
                   cur, ws_sender, shutdown, currently_playing, main_state, ninbound,
                   enq, trace>>
    /\ UNCHANGED cvars

\* An on_remote_call that forwards every Message it is given to the mailbox.
ServerOnRemoteCallForwardsAll(msg, conn_id, sender) ==
    IF rx_alive
    THEN /\ mailbox' = Append(mailbox, [request |-> msg.body, conn_id |-> conn_id,
                                        sender |-> sender])
         /\ enq' = Append(enq, [request |-> msg.body, conn_id |-> conn_id,
                                sender |-> sender])
         /\ UNCHANGED <<listener, logs>>
    ELSE /\ listener' = "panicked"
         /\ UNCHANGED <<mailbox, enq, logs>>

\* Server::on_remote_call: a Request goes to the mailbox (the send is unwrapped:
\* it panics when the receiver is gone), a Response is logged and ignored.
ServerOnRemoteCall(msg, conn_id, sender) ==
    IF msg.kind = "Request"
    THEN IF rx_alive
         THEN /\ mailbox' = Append(mailbox, [request |-> msg.body, conn_id |-> conn_id,
                                             sender |-> sender])
              /\ enq' = Append(enq, [request |-> msg.body, conn_id |-> conn_id,
                                     sender |-> sender])
              /\ UNCHANGED <<listener, logs>>
         ELSE /\ listener' = "panicked"
              /\ UNCHANGED <<mailbox, enq, logs>>
    ELSE /\ logs' = logs \cup {Log("warn", conn_id, "Ignoring unexpected")}
         /\ UNCHANGED <<listener, mailbox, enq>>

\* IncomingComm::on_message: decodes the frame (unwrap: a frame that is no
\* Message panics on the event loop thread) and hands it to the handler.
OnMessage(t, f) ==
    /\ Alive
    /\ conn_state[t] = "open"
    /\ ninbound < MaxInbound
    /\ ninbound' = ninbound + 1
    /\ LET decoded_msg == Decode(f)
       IN IF decoded_msg = DecodeError
          THEN /\ listener' = "panicked"
               /\ UNCHANGED <<mailbox, enq, logs>>
          ELSE ServerOnRemoteCall(decoded_msg, comms[t].id, comms[t].sender)
    /\ UNCHANGED <<next_conn_id, comms, conn_state, queue, outbox, rx_alive, pc, cur,
                   ws_sender, shutdown, currently_playing, main_state, trace>>
    /\ UNCHANGED cvars

\* Server::on_event: every lifecycle event is logged, nothing else.
ServerOnEvent(conn_id, event) ==
    IF event \in {"Shutdown", "Close"}
    THEN logs' = logs \cup {Log("info", conn_id, event)}
    ELSE logs' = logs \cup {Log("error", conn_id, event)}

\* An on_close whose on_event shuts the listener down after the event.
OnCloseShutsDown(t) ==
    /\ Alive
    /\ conn_state[t] = "open"
    /\ ninbound < MaxInbound
    /\ ninbound' = ninbound + 1
    /\ conn_state' = [conn_state EXCEPT ![t] = "closed"]
    /\ ServerOnEvent(comms[t].id, "Close")
    /\ queue' = Append(queue, [signal |-> "Shutdown", token |-> t, frame |-> ""])
    /\ UNCHANGED <<next_conn_id, comms, listener, outbox, mailbox, rx_alive, pc,
                   cur, ws_sender, shutdown, currently_playing, main_state,
                   enq, trace>>
    /\ UNCHANGED cvars

\* IncomingComm::on_close: the connection has closed (here: the peer closed it).
OnClose(t) ==
    /\ Alive
    /\ conn_state[t] = "open"
    /\ ninbound < MaxInbound
    /\ ninbound' = ninbound + 1
    /\ conn_state' = [conn_state EXCEPT ![t] = "closed"]
    /\ ServerOnEvent(comms[t].id, "Close")
    /\ UNCHANGED <<next_conn_id, comms, listener, queue, outbox, mailbox, rx_alive, pc,
                   cur, ws_sender, shutdown, currently_playing, main_state,
                   enq, trace>>
    /\ UNCHANGED cvars

\* IncomingComm::on_error: a transport error on the connection, which the
\* transport then drops.
OnError(t) ==
    /\ Alive
    /\ conn_state[t] = "open"
    /\ ninbound < MaxInbound
    /\ ninbound' = ninbound + 1
    /\ conn_state' = [conn_state EXCEPT ![t] = "closed"]
    /\ ServerOnEvent(comms[t].id, "Error")
    /\ UNCHANGED <<next_conn_id, comms, listener, queue, outbox, mailbox, rx_alive, pc,
                   cur, ws_sender, shutdown, currently_playing, main_state,
                   enq, trace>>
    /\ UNCHANGED cvars

\* IncomingComm::on_timeout.
OnTimeout(t) ==
    /\ Alive
    /\ conn_state[t] = "open"
    /\ ninbound < MaxInbound
    /\ ninbound' = ninbound + 1
    /\ ServerOnEvent(comms[t].id, "Timeout")
    /\ UNCHANGED <<next_conn_id, comms, conn_state, listener, queue, outbox, mailbox,
                   rx_alive, pc, cur, ws_sender, shutdown, currently_playing,
                   main_state, enq, trace>>
    /\ UNCHANGED cvars

\* IncomingComm::on_shutdown on every connection the transport still holds: the
\* first call on a handler sets its flag and reports the event.
ShutdownTargets == {t \in Tokens : conn_state[t] # "closed" /\ ~comms[t].shutdown}

\* The event loop takes the next command of its queue: a frame is written to
\* the connection it names if that is still open, a close ends that connection
\* (on_close), a shutdown ends every connection (on_shutdown) and the loop.
ProcessCommand ==
    /\ Alive
    /\ queue # <<>>
    /\ queue' = Tail(queue)
    /\ LET c == Head(queue)
       IN CASE c.signal = "Message" ->
                 /\ outbox' = IF conn_state[c.token] = "open"
                              THEN [outbox EXCEPT ![c.token] = Append(@, c.frame)]
                              ELSE outbox
                 /\ UNCHANGED <<comms, conn_state, listener, logs>>
            [] c.signal = "Close" ->
                 /\ IF conn_state[c.token] = "open"
                    THEN /\ conn_state' = [conn_state EXCEPT ![c.token] = "closed"]
                         /\ ServerOnEvent(comms[c.token].id, "Close")
                    ELSE UNCHANGED <<conn_state, logs>>
                 /\ UNCHANGED <<comms, outbox, listener>>
            [] c.signal = "Shutdown" ->
                 /\ comms' = [t \in Tokens |->
                                IF t \in ShutdownTargets
                                THEN [comms[t] EXCEPT !.shutdown = TRUE]
                                ELSE comms[t]]
                 /\ logs' = logs \cup {Log("info", comms[t].id, "Shutdown") :
                                         t \in ShutdownTargets}
                 /\ conn_state' = [t \in Tokens |-> "closed"]
                 /\ listener' = "stopped"
                 /\ UNCHANGED outbox
    /\ UNCHANGED <<next_conn_id, mailbox, rx_alive, pc, cur, ws_sender, shutdown,
                   currently_playing, main_state, ninbound, enq, trace>>
    /\ UNCHANGED cvars

\* server main: joins the listener thread; its panic is resumed in main.
MainJoin ==
    /\ main_state = "joining"
    /\ listener # "running"
    /\ main_state' = IF listener = "stopped" THEN "returned" ELSE "panicked"
    /\ UNCHANGED <<next_conn_id, comms, conn_state, listener, queue, outbox, mailbox,
                   rx_alive, pc, cur, ws_sender, shutdown, currently_playing, logs,
                   ninbound, enq, trace>>
    /\ UNCHANGED cvars

\* ------------------------------------------------------------- player thread
WorkerRuns == main_state = "joining"

\* One entry of the history of the player thread.
Ev(ev, req, conn_id, sender, ok) ==
    [ev |-> ev, req |-> req, conn_id |-> conn_id, sender |-> sender, ok |-> ok]

\* ws::Sender::send / close / shutdown: pushes a command for the connection of
\* the handle onto the event loop's queue; an error when the loop is gone.
SenderOk == listener = "running"
Push(q, cmd) == IF SenderOk THEN Append(q, cmd) ELSE q

\* A complete that closes the handle before it sends the Response.
CompleteCloseFirst(conn_id, sender, resp) ==
    LET frame == Encode([kind |-> "Response", body |-> resp.response])
        q0 == IF resp.shutdown
              THEN Push(queue, [signal |-> "Close", token |-> sender, frame |-> ""])
              ELSE queue
        t0 == IF resp.shutdown
              THEN Append(trace, Ev("close", "", conn_id, sender, SenderOk))
              ELSE trace
    IN /\ queue' = Push(q0, [signal |-> "Message", token |-> sender, frame |-> frame])
       /\ logs' = logs \cup {IF SenderOk THEN Log("info", conn_id, "sent response to client")
                                         ELSE Log("error", conn_id, "error sending response")}
       /\ trace' = Append(t0, Ev("send", "", conn_id, sender, SenderOk))

\* A complete that sends on the handle saved in ws_sender instead of the
\* completion's own.
CompleteOnSavedSender(conn_id, sender, resp) ==
    LET frame == Encode([kind |-> "Response", body |-> resp.response])
        q1 == Push(queue, [signal |-> "Message", token |-> ws_sender[1], frame |-> frame])
        l1 == logs \cup {IF SenderOk THEN Log("info", conn_id, "sent response to client")
                                     ELSE Log("error", conn_id, "error sending response")}
        t1 == Append(trace, Ev("send", "", conn_id, ws_sender[1], SenderOk))
    IN IF resp.shutdown
       THEN /\ queue' = Push(q1, [signal |-> "Close", token |-> ws_sender[1], frame |-> ""])
            /\ logs' = l1 \cup {IF SenderOk THEN Log("info", conn_id, "closed due to shutdown")
                                            ELSE Log("error", conn_id, "error closing")}
            /\ trace' = Append(t1, Ev("close", "", conn_id, ws_sender[1], SenderOk))
       ELSE /\ queue' = q1
            /\ logs' = l1
            /\ trace' = t1

\* A complete that returns at a failed send, before the close.
CompleteReturnsOnSendError(conn_id, sender, resp) ==
    LET frame == Encode([kind |-> "Response", body |-> resp.response])
        q1 == Push(queue, [signal |-> "Message", token |-> sender, frame |-> frame])
        l1 == logs \cup {IF SenderOk THEN Log("info", conn_id, "sent response to client")
                                     ELSE Log("error", conn_id, "error sending response")}
        t1 == Append(trace, Ev("send", "", conn_id, sender, SenderOk))
    IN IF resp.shutdown /\ SenderOk
       THEN /\ queue' = Push(q1, [signal |-> "Close", token |-> sender, frame |-> ""])
            /\ logs' = l1 \cup {IF SenderOk THEN Log("info", conn_id, "closed due to shutdown")
                                            ELSE Log("error", conn_id, "error closing")}
            /\ trace' = Append(t1, Ev("close", "", conn_id, sender, SenderOk))
       ELSE /\ queue' = q1
            /\ logs' = l1
            /\ trace' = t1

\* CallCompletion::complete on the completion {conn_id, sender}: sends the
\* encoded Response on sender (an error is logged), and with resp.shutdown
\* closes sender with the normal close code.
Complete(conn_id, sender, resp) ==
    LET frame == Encode([kind |-> "Response", body |-> resp.response])
        q1 == Push(queue, [signal |-> "Message", token |-> sender, frame |-> frame])
        l1 == logs \cup {IF SenderOk THEN Log("info", conn_id, "sent response to client")
                                     ELSE Log("error", conn_id, "error sending response")}
        t1 == Append(trace, Ev("send", "", conn_id, sender, SenderOk))
    IN IF resp.shutdown
       THEN /\ queue' = Push(q1, [signal |-> "Close", token |-> sender, frame |-> ""])
            /\ logs' = l1 \cup {IF SenderOk THEN Log("info", conn_id, "closed due to shutdown")
                                            ELSE Log("error", conn_id, "error closing")}
            /\ trace' = Append(t1, Ev("close", "", conn_id, sender, SenderOk))
       ELSE /\ queue' = q1
            /\ logs' = l1
            /\ trace' = t1

\* A play that completes with the shutdown flag of the response set.
PlayWithShutdown(conn_id, sender) ==
    /\ Complete(conn_id, sender, [response |-> "Ok", shutdown |-> TRUE])
    /\ UNCHANGED <<shutdown, currently_playing>>

\* A play that drops the completion without completing it.
PlayNoComplete(conn_id, sender) ==
    UNCHANGED <<queue, logs, trace, shutdown, currently_playing>>

\* PlayerThread::play: the playback stub, completes with Response::Ok.
Play(conn_id, sender) ==
    /\ Complete(conn_id, sender, [response |-> "Ok", shutdown |-> FALSE])
    /\ UNCHANGED <<shutdown, currently_playing>>

\* PlayerThread::on_remote_call.
PlayerOnRemoteCall(request, conn_id, sender) ==
    IF request = "Play"
    THEN Play(conn_id, sender)
    ELSE /\ shutdown' = TRUE
         /\ Complete(conn_id, sender, [response |-> "Ok", shutdown |-> TRUE])
         /\ UNCHANGED currently_playing

\* A mailbox whose only sender is the Server handler's.
MailboxSendersServerOnly ==
    IF listener = "running" THEN {"Server.sender"} ELSE {}

\* The senders of the player thread's mailbox that are still alive: tx and its
\* clone PlayerThread.sender, both owned by the player thread itself, and
\* Server.sender while the listener thread (which owns the Server handler) lives.
MailboxSenders ==
    {"tx", "PlayerThread.sender"} \cup
    (IF listener = "running" THEN {"Server.sender"} ELSE {})

\* A receive that does not wait for the call on the previous request.
RecvWhileHandling ==
    /\ WorkerRuns
    /\ pc \in {"recv", "call"}
    /\ rx_alive
    /\ mailbox # <<>> \/ MailboxSenders = {}
    /\ IF mailbox = <<>>
       THEN /\ pc' = "exit"
            /\ UNCHANGED <<cur, mailbox, ws_sender, trace>>
       ELSE /\ cur' = <<Head(mailbox)>>
            /\ mailbox' = Tail(mailbox)
            /\ ws_sender' = IF ws_sender = <<>> THEN <<Head(mailbox).sender>>
                             ELSE ws_sender
            /\ trace' = Append(trace, Ev("recv", Head(mailbox).request,
                                         Head(mailbox).conn_id, Head(mailbox).sender,
                                         TRUE))
            /\ pc' = "call"
    /\ UNCHANGED <<next_conn_id, comms, conn_state, listener, queue, outbox, rx_alive,
                   shutdown, currently_playing, main_state, logs, ninbound, enq>>
    /\ UNCHANGED cvars

\* A receive that takes the newest ServerRequest of the mailbox.
RecvNewestFirst ==
    /\ WorkerRuns
    /\ pc = "recv"
    /\ rx_alive
    /\ mailbox # <<>> \/ MailboxSenders = {}
    /\ IF mailbox = <<>>
       THEN /\ pc' = "exit"
            /\ UNCHANGED <<cur, mailbox, ws_sender, trace>>
       ELSE /\ cur' = <<mailbox[Len(mailbox)]>>
            /\ mailbox' = SubSeq(mailbox, 1, Len(mailbox) - 1)
            /\ ws_sender' = IF ws_sender = <<>> THEN <<mailbox[Len(mailbox)].sender>>
                             ELSE ws_sender
            /\ trace' = Append(trace, Ev("recv", mailbox[Len(mailbox)].request,
                                         mailbox[Len(mailbox)].conn_id, mailbox[Len(mailbox)].sender,
                                         TRUE))
            /\ pc' = "call"
    /\ UNCHANGED <<next_conn_id, comms, conn_state, listener, queue, outbox, rx_alive,
                   shutdown, currently_playing, main_state, logs, ninbound, enq>>
    /\ UNCHANGED cvars

\* A receive that keeps the sender of every request in ws_sender.
RecvKeepsLatestSender ==
    /\ WorkerRuns
    /\ pc = "recv"
    /\ rx_alive
    /\ mailbox # <<>> \/ MailboxSenders = {}
    /\ IF mailbox = <<>>
       THEN /\ pc' = "exit"
            /\ UNCHANGED <<cur, mailbox, ws_sender, trace>>
       ELSE /\ cur' = <<Head(mailbox)>>
            /\ mailbox' = Tail(mailbox)
            /\ ws_sender' = <<Head(mailbox).sender>>
            /\ trace' = Append(trace, Ev("recv", Head(mailbox).request,
                                         Head(mailbox).conn_id, Head(mailbox).sender,
                                         TRUE))
            /\ pc' = "call"
    /\ UNCHANGED <<next_conn_id, comms, conn_state, listener, queue, outbox, rx_alive,
                   shutdown, currently_playing, main_state, logs, ninbound, enq>>
    /\ UNCHANGED cvars

\* A receive that never saves a sender in ws_sender.
RecvSavesNoSender ==
    /\ WorkerRuns
    /\ pc = "recv"
    /\ rx_alive
    /\ mailbox # <<>> \/ MailboxSenders = {}
    /\ IF mailbox = <<>>
       THEN /\ pc' = "exit"
            /\ UNCHANGED <<cur, mailbox, ws_sender, trace>>
       ELSE /\ cur' = <<Head(mailbox)>>
            /\ mailbox' = Tail(mailbox)
            /\ ws_sender' = ws_sender
            /\ trace' = Append(trace, Ev("recv", Head(mailbox).request,
                                         Head(mailbox).conn_id, Head(mailbox).sender,
                                         TRUE))
            /\ pc' = "call"
    /\ UNCHANGED <<next_conn_id, comms, conn_state, listener, queue, outbox, rx_alive,
                   shutdown, currently_playing, main_state, logs, ninbound, enq>>
    /\ UNCHANGED cvars

\* PlayerThread::run, the receive: takes the next ServerRequest of the mailbox
\* (blocks while it is empty and a sender is alive; with none alive recv fails
\* and the loop ends) and keeps the first sender it sees in ws_sender.
Recv ==
    /\ WorkerRuns
    /\ pc = "recv"
    /\ rx_alive
    /\ mailbox # <<>> \/ MailboxSenders = {}
    /\ IF mailbox = <<>>
       THEN /\ pc' = "exit"
            /\ UNCHANGED <<cur, mailbox, ws_sender, trace>>
       ELSE /\ cur' = <<Head(mailbox)>>
            /\ mailbox' = Tail(mailbox)
            /\ ws_sender' = IF ws_sender = <<>> THEN <<Head(mailbox).sender>>
                             ELSE ws_sender
            /\ trace' = Append(trace, Ev("recv", Head(mailbox).request,
                                         Head(mailbox).conn_id, Head(mailbox).sender,
                                         TRUE))
            /\ pc' = "call"
    /\ UNCHANGED <<next_conn_id, comms, conn_state, listener, queue, outbox, rx_alive,
                   shutdown, currently_playing, main_state, logs, ninbound, enq>>
    /\ UNCHANGED cvars

\* PlayerThread::run, the call of on_remote_call on the request received.
Call ==
    /\ WorkerRuns
    /\ pc = "call"
    /\ PlayerOnRemoteCall(cur[1].request, cur[1].conn_id, cur[1].sender)
    /\ pc' = "check"
    /\ UNCHANGED <<next_conn_id, comms, conn_state, listener, outbox, mailbox, rx_alive,
                   cur, ws_sender, main_state, ninbound, enq>>
    /\ UNCHANGED cvars

\* A check that shuts the listener down but does not break out of the loop.
CheckNoBreak ==
    /\ WorkerRuns
    /\ pc = "check"
    /\ IF shutdown
       THEN /\ queue' = Push(queue, [signal |-> "Shutdown", token |-> ws_sender[1],
                                     frame |-> ""])
            /\ trace' = Append(trace, Ev("shutdown", "", cur[1].conn_id, ws_sender[1],
                                        SenderOk))
       ELSE UNCHANGED <<queue, trace>>
    /\ pc' = "recv"
    /\ cur' = <<>>
    /\ UNCHANGED <<next_conn_id, comms, conn_state, listener, outbox, mailbox, rx_alive,
                   ws_sender, shutdown, currently_playing, main_state, logs, ninbound, enq>>
    /\ UNCHANGED cvars

\* PlayerThread::run, after the call: with the flag set, shuts the listener down
\* through the saved ws_sender and leaves the loop (with no sender saved the
\* expect panics out of run); otherwise receives again.
Check ==
    /\ WorkerRuns
    /\ pc = "check"
    /\ IF shutdown /\ ws_sender = <<>>
       THEN /\ trace' = Append(trace, Ev("panic", "", cur[1].conn_id, cur[1].sender,
                                        FALSE))
            /\ pc' = "exit"
            /\ UNCHANGED <<queue, ws_sender>>
       ELSE IF shutdown
       THEN /\ queue' = Push(queue, [signal |-> "Shutdown", token |-> ws_sender[1],
                                     frame |-> ""])
            /\ trace' = Append(trace, Ev("shutdown", "", cur[1].conn_id, ws_sender[1],
                                        SenderOk))
            /\ ws_sender' = <<>>
            /\ pc' = "exit"
       ELSE /\ pc' = "recv"
            /\ UNCHANGED <<queue, trace, ws_sender>>
    /\ cur' = <<>>
    /\ UNCHANGED <<next_conn_id, comms, conn_state, listener, outbox, mailbox, rx_alive,
                   shutdown, currently_playing, main_state, logs, ninbound, enq>>
    /\ UNCHANGED cvars

\* The end of the player thread's closure in Server::new: run has returned and
\* the PlayerThread is dropped, and with it the Receiver and what it still held.
Exit ==
    /\ WorkerRuns
    /\ pc = "exit"
    /\ pc' = "done"
    /\ rx_alive' = FALSE
    /\ mailbox' = <<>>
    /\ trace' = Append(trace, Ev("end", "", 0, 0, TRUE))
    /\ UNCHANGED <<next_conn_id, comms, conn_state, listener, queue, outbox, cur,
                   ws_sender, shutdown, currently_playing, main_state, logs, ninbound, enq>>
    /\ UNCHANGED cvars

\* ------------------------------------------------------------- client
\* cmdline::ClientCommand.
Commands == {"Play", "Pause", "Queue", "Status", "Shutdown"}

\* common::WSMsg, the events of the client's mailbox.
NoMsg == [kind |-> "", body |-> ""]
WSMsg(ev, msg) == [ev |-> ev, msg |-> msg]
LifecycleEvents == {"Open", "Timeout", "Shutdown", "Close", "Error"}

\* What client main returns.
Ok == [ok |-> TRUE, err |-> "", ev |-> WSMsg("", NoMsg)]
Err(kind, ev) == [ok |-> FALSE, err |-> kind, ev |-> ev]

\* A make_message that sends the commands it does not implement as Play.
MakeMessageAllPlay(c) ==
    CASE c = "Shutdown" -> <<MsgShutdown>>
      [] OTHER -> <<MsgPlay>>

\* client::make_message: Play and Shutdown make a Request, the other commands
\* fail with Generic("Not Implemented").
MakeMessage(c) ==
    CASE c = "Play" -> <<MsgPlay>>
      [] c = "Shutdown" -> <<MsgShutdown>>
      [] OTHER -> <<>>

\* client::main up to Client::new: makes the message, or returns its error.
MainMakeMessage ==
    /\ cpc = "idle"
    /\ message' = MakeMessage(command)
    /\ IF MakeMessage(command) = <<>>
       THEN /\ result' = <<Err("Generic: Not Implemented", WSMsg("", NoMsg))>>
            /\ cpc' = "done"
       ELSE /\ cpc' = "new"
            /\ UNCHANGED result
    /\ UNCHANGED <<command, recv_channel, sender_slot, net_thread, delivered, first_ev,
                   second_ev, csent, cclosed>>
    /\ UNCHANGED svars

\* Client::new: makes the channel and the Client and spawns the network thread.
ClientNew ==
    /\ cpc = "new"
    /\ net_thread' = "connecting"
    /\ cpc' = "recv1"
    /\ UNCHANGED <<command, message, recv_channel, sender_slot, delivered, first_ev,
                   second_ev, result, csent, cclosed>>
    /\ UNCHANGED svars

\* The network thread's ws.connect up to its call of the connection factory;
\* when it fails the thread sends InitError and ends.
NetConnect(ok) ==
    /\ net_thread = "connecting"
    /\ IF ok
       THEN /\ net_thread' = "factory"
            /\ UNCHANGED recv_channel
       ELSE /\ recv_channel' = Append(recv_channel, WSMsg("InitError", NoMsg))
            /\ net_thread' = "ended"
    /\ UNCHANGED <<cpc, command, message, sender_slot, delivered, first_ev, second_ev,
                   result, csent, cclosed>>
    /\ UNCHANGED svars

\* Client::close holds the lock of the sender slot from its first line to its
\* return, so all through its join of the network thread.
SenderLockedByClose == cpc = "join"

\* A factory that does not store the sender in the slot.
NetFactoryStoresNoSender ==
    /\ net_thread = "factory"
    /\ ~SenderLockedByClose
    /\ sender_slot' = sender_slot
    /\ net_thread' = "running"
    /\ UNCHANGED <<cpc, command, message, recv_channel, delivered, first_ev, second_ev,
                   result, csent, cclosed>>
    /\ UNCHANGED svars

\* The connection factory, on the network thread inside ws.connect: takes the
\* lock of the sender slot (waits while it is held), stores the connection's
\* ws::Sender in the slot and makes the handler; the event loop runs next.
NetFactory ==
    /\ net_thread = "factory"
    /\ ~SenderLockedByClose
    /\ sender_slot' = <<1>>
    /\ net_thread' = "running"
    /\ UNCHANGED <<cpc, command, message, recv_channel, delivered, first_ev, second_ev,
                   result, csent, cclosed>>
    /\ UNCHANGED svars

\* ClientInner::on_open, on_shutdown, on_close, on_error, on_timeout: each sends
\* its event to the mailbox.
NetEvent(e) ==
    /\ net_thread = "running"
    /\ delivered < MaxEvents
    /\ delivered' = delivered + 1
    /\ recv_channel' = Append(recv_channel, WSMsg(e, NoMsg))
    /\ UNCHANGED <<cpc, command, message, sender_slot, net_thread, first_ev, second_ev,
                   result, csent, cclosed>>
    /\ UNCHANGED svars

\* ClientInner::on_message: decodes the frame (unwrap: a frame that is no
\* Message panics on the network thread) and sends Message(decoded).
NetMessage(f) ==
    /\ net_thread = "running"
    /\ delivered < MaxEvents
    /\ delivered' = delivered + 1
    /\ IF Decode(f) = DecodeError
       THEN /\ net_thread' = "panicked"
            /\ UNCHANGED recv_channel
       ELSE /\ recv_channel' = Append(recv_channel, WSMsg("Message", Decode(f)))
            /\ UNCHANGED net_thread
    /\ UNCHANGED <<cpc, command, message, sender_slot, first_ev, second_ev, result,
                   csent, cclosed>>
    /\ UNCHANGED svars

\* The network thread's ws.run returns: with an error the thread sends
\* InitError; either way the thread ends.
NetRunEnd(ok) ==
    /\ net_thread = "running"
    /\ net_thread' = "ended"
    /\ recv_channel' = IF ok THEN recv_channel
                       ELSE Append(recv_channel, WSMsg("InitError", NoMsg))
    /\ UNCHANGED <<cpc, command, message, sender_slot, delivered, first_ev, second_ev,
                   result, csent, cclosed>>
    /\ UNCHANGED svars

\* The senders of the client's event channel that are still alive: tx, boxed in
\* the mailbox that the Client's own inner handler shares (so alive as long as
\* the Client, through every recv), and tx_err while the network thread lives.
RecvChannelSenders ==
    {"tx"} \cup
    (IF net_thread \in {"connecting", "factory", "running"} THEN {"tx_err"}
     ELSE {})

\* A recv that returns at once, an event queued or not.
RecvReturnsAtOnce == TRUE

\* Receiver::recv returns: an event is queued, or the channel is empty and every
\* sender is gone (RecvError); otherwise it blocks.
RecvReturns == recv_channel # <<>> \/ RecvChannelSenders = {}

\* A first recv that takes any Message for the Open.
MainRecvOpenOrMessage ==
    /\ cpc = "recv1"
    /\ RecvReturns
    /\ IF recv_channel = <<>>
       THEN /\ result' = <<Err("MpscRecvError", WSMsg("", NoMsg))>>
            /\ cpc' = "drop"
            /\ UNCHANGED <<recv_channel, first_ev>>
       ELSE /\ recv_channel' = Tail(recv_channel)
            /\ first_ev' = <<Head(recv_channel)>>
            /\ IF Head(recv_channel).ev \in {"Open", "Message"}
               THEN /\ cpc' = "send"
                    /\ UNCHANGED result
               ELSE /\ result' = <<Err("NoOpen", Head(recv_channel))>>
                    /\ cpc' = "drop"
    /\ UNCHANGED <<command, message, sender_slot, net_thread, delivered, second_ev,
                   csent, cclosed>>
    /\ UNCHANGED svars

\* client::main, the first recv: Open goes on to the send, any other event is
\* returned as NoOpen.  (Client::recv blocks while the channel is empty; the
\* Client keeps a sender of the channel in inner, so it never disconnects.)
MainRecvOpen ==
    /\ cpc = "recv1"
    /\ RecvReturns
    /\ IF recv_channel = <<>>
       THEN /\ result' = <<Err("MpscRecvError", WSMsg("", NoMsg))>>
            /\ cpc' = "drop"
            /\ UNCHANGED <<recv_channel, first_ev>>
       ELSE /\ recv_channel' = Tail(recv_channel)
            /\ first_ev' = <<Head(recv_channel)>>
            /\ IF Head(recv_channel).ev = "Open"
               THEN /\ cpc' = "send"
                    /\ UNCHANGED result
               ELSE /\ result' = <<Err("NoOpen", Head(recv_channel))>>
                    /\ cpc' = "drop"
    /\ UNCHANGED <<command, message, sender_slot, net_thread, delivered, second_ev,
                   csent, cclosed>>
    /\ UNCHANGED svars

\* A Client::send that sends its frame twice.
ClientSendTwice ==
    /\ cpc = "send"
    /\ IF sender_slot = <<>>
       THEN /\ cpc' = "recv2"
            /\ UNCHANGED <<csent, result>>
       ELSE IF net_thread = "running"
            THEN /\ csent' = csent \o <<Encode(message[1]), Encode(message[1])>>
                 /\ cpc' = "recv2"
                 /\ UNCHANGED result
            ELSE /\ result' = <<Err("SocketError", WSMsg("", NoMsg))>>
                 /\ cpc' = "drop"
                 /\ UNCHANGED csent
    /\ UNCHANGED <<command, message, recv_channel, sender_slot, net_thread, delivered,
                   first_ev, second_ev, cclosed>>
    /\ UNCHANGED svars

\* Client::send: with no sender in the slot it returns Ok without sending;
\* otherwise send_json_message, whose error (the event loop is gone) main returns.
ClientSend ==
    /\ cpc = "send"
    /\ IF sender_slot = <<>>
       THEN /\ cpc' = "recv2"
            /\ UNCHANGED <<csent, result>>
       ELSE IF net_thread = "running"
            THEN /\ csent' = Append(csent, Encode(message[1]))
                 /\ cpc' = "recv2"
                 /\ UNCHANGED result
            ELSE /\ result' = <<Err("SocketError", WSMsg("", NoMsg))>>
                 /\ cpc' = "drop"
                 /\ UNCHANGED csent
    /\ UNCHANGED <<command, message, recv_channel, sender_slot, net_thread, delivered,
                   first_ev, second_ev, cclosed>>
    /\ UNCHANGED svars

\* A second recv that takes any Message for the Response.
MainRecvAnyMessage ==
    /\ cpc = "recv2"
    /\ RecvReturns
    /\ IF recv_channel = <<>>
       THEN /\ result' = <<Err("MpscRecvError", WSMsg("", NoMsg))>>
            /\ cpc' = "drop"
            /\ UNCHANGED <<recv_channel, second_ev>>
       ELSE /\ recv_channel' = Tail(recv_channel)
            /\ second_ev' = <<Head(recv_channel)>>
            /\ result' = IF Head(recv_channel).ev = "Message"
                         THEN <<Ok>>
                         ELSE <<Err("UnexpectedResponse", Head(recv_channel))>>
            /\ cpc' = "drop"
    /\ UNCHANGED <<command, message, sender_slot, net_thread, delivered, first_ev,
                   csent, cclosed>>
    /\ UNCHANGED svars

\* client::main, the second recv: a Message carrying a Response ends the run
\* with Ok, any other event is returned as UnexpectedResponse.
MainRecvResponse ==
    /\ cpc = "recv2"
    /\ RecvReturns
    /\ IF recv_channel = <<>>
       THEN /\ result' = <<Err("MpscRecvError", WSMsg("", NoMsg))>>
            /\ cpc' = "drop"
            /\ UNCHANGED <<recv_channel, second_ev>>
       ELSE /\ recv_channel' = Tail(recv_channel)
            /\ second_ev' = <<Head(recv_channel)>>
            /\ result' = IF Head(recv_channel).ev = "Message"
                            /\ Head(recv_channel).msg.kind = "Response"
                         THEN <<Ok>>
                         ELSE <<Err("UnexpectedResponse", Head(recv_channel))>>
            /\ cpc' = "drop"
    /\ UNCHANGED <<command, message, sender_slot, net_thread, delivered, first_ev,
                   csent, cclosed>>
    /\ UNCHANGED svars

\* Client::close (on drop), first half: closes the connection through the
\* sender in the slot, if there is one.
ClientClose ==
    /\ cpc = "drop"
    /\ cclosed' = IF sender_slot # <<>> /\ net_thread = "running"
                  THEN cclosed + 1 ELSE cclosed
    /\ cpc' = "join"
    /\ UNCHANGED <<command, message, recv_channel, sender_slot, net_thread, delivered,
                   first_ev, second_ev, result, csent>>
    /\ UNCHANGED svars

\* Client::close, second half: joins the network thread.
ClientJoin ==
    /\ cpc = "join"
    /\ net_thread \in {"ended", "panicked"}
    /\ cpc' = "done"
    /\ UNCHANGED <<command, message, recv_channel, sender_slot, net_thread, delivered,
                   first_ev, second_ev, result, csent, cclosed>>
    /\ UNCHANGED svars

\* ------------------------------------------------------------- specification
ClientIdle ==
    /\ cpc = "idle"
    /\ command = "Play"
    /\ message = <<>>
    /\ recv_channel = <<>>
    /\ sender_slot = <<>>
    /\ net_thread = "none"
    /\ delivered = 0
    /\ first_ev = <<>>
    /\ second_ev = <<>>
    /\ result = <<>>
    /\ csent = <<>>
    /\ cclosed = 0

\* Server::new, PlayerThread::new and server_spawn: the state once server main
\* is joining the listener thread.
ServerInit ==
    /\ next_conn_id = 0
    /\ comms = <<>>
    /\ conn_state = <<>>
    /\ listener = "running"
    /\ queue = <<>>
    /\ outbox = <<>>
    /\ mailbox = <<>>
    /\ rx_alive = TRUE
    /\ pc = "recv"
    /\ cur = <<>>
    /\ ws_sender = <<>>
    /\ shutdown = FALSE
    /\ currently_playing = <<>>
    /\ main_state = "joining"
    /\ logs = {}
    /\ ninbound = 0
    /\ enq = <<>>
    /\ trace = <<>>

Init == ServerInit /\ ClientIdle

Next ==
    \/ Factory
    \/ \E t \in Tokens : OnOpen(t)
    \/ \E t \in Tokens : \E f \in Frames : OnMessage(t, f)
    \/ \E t \in Tokens : OnClose(t)
    \/ \E t \in Tokens : OnError(t)
    \/ \E t \in Tokens : OnTimeout(t)
    \/ ProcessCommand
    \/ MainJoin
    \/ Recv
    \/ Call
    \/ Check
    \/ Exit

Spec == Init /\ [][Next]_vars

\* The client run: any command, the server side at rest.
ClientInit ==
    /\ ServerInit
    /\ cpc = "idle"
    /\ command \in Commands
    /\ message = <<>>
    /\ recv_channel = <<>>
    /\ sender_slot = <<>>
    /\ net_thread = "none"
    /\ delivered = 0
    /\ first_ev = <<>>
    /\ second_ev = <<>>
    /\ result = <<>>
    /\ csent = <<>>
    /\ cclosed = 0

ClientNext ==
    \/ MainMakeMessage
    \/ ClientNew
    \/ \E ok \in BOOLEAN : NetConnect(ok)
    \/ NetFactory
    \/ \E e \in LifecycleEvents : NetEvent(e)
    \/ \E f \in Frames : NetMessage(f)
    \/ \E ok \in BOOLEAN : NetRunEnd(ok)
    \/ MainRecvOpen
    \/ ClientSend
    \/ MainRecvResponse
    \/ ClientClose
    \/ ClientJoin

ClientSpec == ClientInit /\ [][ClientNext]_vars

\* ------------------------------------------------------------- properties
\* The player thread's receives, sends and closes, each in order.
Recvs == SelectSeq(trace, LAMBDA e : e.ev = "recv")
Sends == SelectSeq(trace, LAMBDA e : e.ev = "send")
RecvsOf(tr) == SelectSeq(tr, LAMBDA e : e.ev = "recv")
SendsOf(tr) == SelectSeq(tr, LAMBDA e : e.ev = "send")
\* The Requests enqueued so far that came from the connection of token t.
EnqFrom(t) == SelectSeq(enq, LAMBDA r : r.sender = t)
\* The length of the prefix of a sequence of requests that ends with its first
\* Shutdown (the whole sequence when it holds none).
RECURSIVE UpToShutdown(_)
UpToShutdown(rs) ==
    IF rs = <<>> THEN 0
    ELSE IF Head(rs).request = "Shutdown" THEN 1
    ELSE 1 + UpToShutdown(Tail(rs))

\* C1: every Request received is completed at most once, and its Response is
\* sent on the send-handle of the connection the Request came from: the i-th
\* send answers the i-th Request enqueued, on that Request's own handle and
\* ConnectionId, and no connection is written more Responses than it sent
\* Requests.
C1_ResponseRoutedToOrigin ==
    /\ Len(Sends) <= Len(Recvs)
    /\ Len(Recvs) <= Len(enq)
    /\ \A i \in 1..Len(Recvs) :
          /\ Recvs[i].sender = enq[i].sender
          /\ Recvs[i].conn_id = enq[i].conn_id
    /\ \A i \in 1..Len(Sends) :
          /\ Sends[i].sender = enq[i].sender
          /\ Sends[i].conn_id = enq[i].conn_id
          /\ comms[Sends[i].sender].id = Sends[i].conn_id
    /\ \A i \in 1..Len(queue) :
          queue[i].signal = "Message" => queue[i].frame = Encode(MsgOk)
    /\ \A t \in Tokens :
          /\ Len(outbox[t]) <= Len(EnqFrom(t))
          /\ \A i \in 1..Len(outbox[t]) : Decode(outbox[t][i]) = MsgOk

\* C1 witness: two connections have interleaved Requests and each has been
\* written its own Response.
C1_Witness ==
    /\ Len(comms) >= 2
    /\ Len(enq) >= 3
    /\ enq[1].sender = 2 /\ enq[2].sender = 1 /\ enq[3].sender = 2
    /\ Len(outbox[1]) = 1
    /\ Len(outbox[2]) = 2


\* The player thread can take no further step on what has been enqueued: it
\* waits on an empty mailbox, or it has left its loop.
WorkerQuiet == (pc = "recv" /\ mailbox = <<>>) \/ pc \in {"exit", "done"}

\* C2 as stated: with every connection sending one Request, Play or Shutdown,
\* once the player thread has nothing left to do there is one Response for
\* every Request sent.
C2_OneResponsePerRequest ==
    (/\ WorkerQuiet
     /\ listener # "panicked"
     /\ \A t \in Tokens : Len(EnqFrom(t)) <= 1)
    => Len(Sends) = Len(enq)

\* C2 as amended: the server answers each Request at most once, and exactly
\* the Requests enqueued up to and including the first Shutdown: a Request
\* behind a Shutdown gets no Response.  A Response is handed to the transport
\* unless the listener's event loop has ended by then.
C2_OneResponseUpToShutdown ==
    /\ Len(Sends) <= Len(Recvs)
    /\ Len(Recvs) <= UpToShutdown(enq)
    /\ WorkerQuiet => Len(Sends) = UpToShutdown(enq)
    /\ \A i \in 1..Len(Sends) : ~Sends[i].ok => listener # "running"

\* C2 witness: two connections, three Requests, the Shutdown second: the
\* player thread has ended with two Responses sent and the third Request
\* unanswered.
C2_Witness ==
    /\ pc = "done"
    /\ Len(enq) = 3
    /\ enq[1].request = "Play" /\ enq[2].request = "Shutdown"
    /\ enq[1].sender # enq[2].sender
    /\ Len(Sends) = 2


\* C3: for a Shutdown request from connection c the player thread sends the
\* Response on c's handle, then closes c's handle, and only then shuts the
\* listener down and ends; the event loop gets the two commands in that order.
C3_CompleteThenCloseThenStop ==
    /\ \A i \in 1..Len(trace) :
          /\ (trace[i].ev = "recv" /\ trace[i].req = "Shutdown" /\ i < Len(trace)) =>
                /\ i + 2 <= Len(trace)
                /\ trace[i + 1].ev = "send" /\ trace[i + 1].sender = trace[i].sender
                /\ trace[i + 2].ev = "close" /\ trace[i + 2].sender = trace[i].sender
          /\ trace[i].ev = "close" =>
                /\ i > 2
                /\ trace[i - 1].ev = "send" /\ trace[i - 1].sender = trace[i].sender
                /\ trace[i - 2].ev = "recv" /\ trace[i - 2].req = "Shutdown"
                /\ trace[i - 2].sender = trace[i].sender
          /\ trace[i].ev = "shutdown" => (i > 1 /\ trace[i - 1].ev = "close")
          /\ trace[i].ev = "end" => (i > 1 /\ trace[i - 1].ev = "shutdown")
    /\ pc \in {"exit", "done"} => \E i \in 1..Len(trace) : trace[i].ev = "close"
    /\ \A j \in 1..Len(queue) :
          /\ queue[j].signal = "Close" =>
                (j = 1 \/ (queue[j - 1].signal = "Message"
                           /\ queue[j - 1].token = queue[j].token))
          /\ queue[j].signal = "Shutdown" => (j = 1 \/ queue[j - 1].signal = "Close")

\* C3 witness: a Shutdown from the second connection, after a Play from the
\* first: its Response has been written to the second connection, which is
\* closed, and the player thread has ended.
C3_Witness ==
    /\ pc = "done"
    /\ Len(Recvs) = 2
    /\ Recvs[1].sender = 1 /\ Recvs[2].sender = 2 /\ Recvs[2].req = "Shutdown"
    /\ outbox[2] = <<Encode(MsgOk)>>
    /\ conn_state[2] = "closed"

\* C4: once the shutting-down flag is set (it is set with the Response to the
\* Shutdown request) the player thread receives no Request and sends no
\* Response any more, whatever the mailbox holds or gets.
C4_NoRequestAfterShutdown ==
    [][shutdown => /\ RecvsOf(trace') = RecvsOf(trace)
                   /\ SendsOf(trace') = SendsOf(trace)
                   /\ pc' \in {"check", "exit", "done"}
                   /\ shutdown']_vars

\* C4 witness: the player thread has left its loop after a Shutdown while a
\* Request of another connection is still in the mailbox.
C4_Witness ==
    /\ shutdown
    /\ pc = "exit"
    /\ mailbox # <<>>
    /\ Head(mailbox).sender # Recvs[Len(Recvs)].sender

\* C5: the ConnectionIds start at 0 and increase by allocation order, so no
\* two connections hold the same one.
C5_ConnIdsUniqueIncreasing ==
    /\ \A t \in Tokens : comms[t].id = t - 1
    /\ \A t1, t2 \in Tokens : t1 < t2 => comms[t1].id < comms[t2].id
    /\ next_conn_id = Len(comms)

\* C5 witness: the listener has accepted the second connection.
C5_Witness ==
    /\ Len(comms) >= 2
    /\ comms[1].id = 0
    /\ comms[2].id = 1

\* C6: the player thread takes a Request only when it handles none and has
\* completed every earlier one, so at most one Request is uncompleted at any
\* time; the shutting-down flag and currently_playing change only in the
\* player thread's call step.
C6_OneRequestAtATime ==
    [][/\ (cur' # <<>> /\ cur' # cur) =>
             (pc = "recv" /\ cur = <<>> /\ Len(SendsOf(trace)) = Len(RecvsOf(trace)))
       /\ Len(RecvsOf(trace')) - Len(SendsOf(trace')) \in {0, 1}
       /\ (Len(RecvsOf(trace')) # Len(SendsOf(trace'))) <=> (pc' = "call")
       /\ (shutdown' # shutdown \/ currently_playing' # currently_playing) =>
             (pc = "call" /\ pc' = "check")]_vars

\* C6 witness: while one Request is being handled, Requests of both
\* connections wait in the mailbox.
C6_Witness ==
    /\ pc = "call"
    /\ Len(mailbox) = 2
    /\ mailbox[1].sender # mailbox[2].sender

\* C9: the receipt of a frame that is no Message leaves the listener running
\* (and with it server main and the other connections).
C9_MalformedFrameFatalToConnectionOnly ==
    [][\A t \in Tokens : \A f \in Frames :
          (Decode(f) = DecodeError /\ OnMessage(t, f)) =>
             (listener' = "running" /\ \A u \in Tokens \ {t} : conn_state'[u] = conn_state[u])]_vars

\* C10: handling a Play sends the Response on the Request's connection and
\* issues no close: the next thing the player thread does is receive again,
\* and while no Shutdown has been handled the event loop holds no close or
\* shutdown command.
C10_PlayKeepsConnection ==
    /\ \A i \in 1..Len(trace) :
          (trace[i].ev = "recv" /\ trace[i].req = "Play" /\ i < Len(trace)) =>
             /\ trace[i + 1].ev = "send"
             /\ trace[i + 1].sender = trace[i].sender
             /\ i + 1 < Len(trace) => trace[i + 2].ev = "recv"
    /\ ~shutdown => \A j \in 1..Len(queue) : queue[j].signal = "Message"

\* C10 witness: two Plays on the same connection, both answered on it, and the
\* connection is still open.
C10_Witness ==
    /\ Len(enq) >= 2
    /\ enq[1].request = "Play" /\ enq[2].request = "Play"
    /\ enq[1].sender = enq[2].sender
    /\ outbox[enq[1].sender] = <<Encode(MsgOk), Encode(MsgOk)>>
    /\ conn_state[enq[1].sender] = "open"
    /\ ~shutdown


\* C7: a client whose first event is not Open returns NoOpen carrying that
\* event, and has sent nothing and received nothing more.
C7_NoOpenFails ==
    (first_ev # <<>> /\ first_ev[1].ev # "Open") =>
       /\ result = <<Err("NoOpen", first_ev[1])>>
       /\ csent = <<>>
       /\ second_ev = <<>>
       /\ cpc \in {"drop", "join", "done"}

\* C7 witness: the first event was a Message carrying a Response, and the run
\* has ended.
C7_Witness ==
    /\ first_ev = <<WSMsg("Message", MsgOk)>>
    /\ cpc = "done"
    /\ result = <<Err("NoOpen", WSMsg("Message", MsgOk))>>

\* C8: a client that got Open and sent its Request, and whose second event is
\* not a Message carrying a Response, returns UnexpectedResponse carrying that
\* event.
C8_UnexpectedResponseFails ==
    (second_ev # <<>>
     /\ ~(second_ev[1].ev = "Message" /\ second_ev[1].msg.kind = "Response")) =>
       /\ first_ev = <<WSMsg("Open", NoMsg)>>
       /\ csent = <<Encode(message[1])>>
       /\ result = <<Err("UnexpectedResponse", second_ev[1])>>
       /\ cpc \in {"drop", "join", "done"}

\* C8 witness: after Open and the send, the second event was a Message
\* carrying a Request, and the run has ended.
C8_Witness ==
    /\ first_ev = <<WSMsg("Open", NoMsg)>>
    /\ csent # <<>>
    /\ second_ev = <<WSMsg("Message", MsgPlay)>>
    /\ cpc = "done"

\* C11: the commands Pause, Queue and Status are rejected with the Generic error
\* "Not Implemented" before the client makes its connection: no network thread
\* is started, no sender is stored, no event is delivered, no frame is sent and
\* nothing is closed, and the run ends with that error.
C11_UnimplementedRejectedBeforeConnect ==
    command \in {"Pause", "Queue", "Status"} =>
        /\ cpc \in {"idle", "done"}
        /\ message = <<>>
        /\ net_thread = "none"
        /\ sender_slot = <<>>
        /\ recv_channel = <<>>
        /\ delivered = 0
        /\ csent = <<>>
        /\ cclosed = 0
        /\ cpc = "done" =>
              result = <<Err("Generic: Not Implemented", WSMsg("", NoMsg))>>

\* C11 witness: a Queue command has been rejected.
C11_Witness ==
    /\ command = "Queue"
    /\ cpc = "done"
    /\ result = <<Err("Generic: Not Implemented", WSMsg("", NoMsg))>>

\* C12: a consumer blocked in Client::recv does not stay blocked once the
\* producer side is permanently gone: when the network thread has ended (or
\* died) and no event is queued, the recv returns (with the connection-lost
\* error MpscRecvError).
C12_RecvFailsWhenProducersGone ==
    (/\ cpc \in {"recv1", "recv2"}
     /\ net_thread \in {"ended", "panicked"}
     /\ recv_channel = <<>>) => RecvReturns

\* C13: in every client run at most one Request is sent, and only after the
\* Open event was received; a run that succeeds has sent exactly one Request,
\* the message made from the command, and then received one Response; the
\* connection is closed only after the result is known, at most once, and the
\* run is over only when the network thread has been joined.
C13_OneRequestAfterOpen ==
    /\ Len(csent) <= 1
    /\ csent # <<>> =>
          /\ first_ev = <<WSMsg("Open", NoMsg)>>
          /\ csent = <<Encode(message[1])>>
          /\ Decode(csent[1]).kind = "Request"
    /\ result = <<Ok>> =>
          /\ Len(csent) = 1
          /\ second_ev # <<>>
          /\ second_ev[1].ev = "Message"
          /\ second_ev[1].msg.kind = "Response"
          /\ cpc \in {"drop", "join", "done"}
    /\ cclosed <= 1
    /\ cclosed = 1 => result # <<>> /\ cpc \in {"join", "done"}
    /\ (cpc = "done" /\ message # <<>>) => net_thread \in {"ended", "panicked"}

\* C13 witness: a run that succeeded, closed its connection and joined its
\* network thread.
C13_Witness ==
    /\ cpc = "done"
    /\ result = <<Ok>>
    /\ csent = <<Encode(MsgShutdown)>>
    /\ cclosed = 1
    /\ net_thread = "ended"

\* C14: the Worker Loop handles Requests in the order they were enqueued, one
\* after the other: the i-th Request it receives is the i-th enqueued, the
\* Requests still waiting are the rest of the enqueued ones in their order, and
\* every Request received before the latest one has had its Response sent
\* before the next Request was dequeued (each recv but the latest is followed
\* directly by its own send).
C14_FifoHandling ==
    /\ Len(Recvs) <= Len(enq)
    /\ \A i \in 1..Len(Recvs) :
          /\ Recvs[i].req = enq[i].request
          /\ Recvs[i].conn_id = enq[i].conn_id
          /\ Recvs[i].sender = enq[i].sender
    /\ rx_alive => mailbox = SubSeq(enq, Len(Recvs) + 1, Len(enq))
    /\ \A i \in 1..Len(trace) :
          (trace[i].ev = "recv" /\ \E j \in (i + 1)..Len(trace) : trace[j].ev = "recv")
             => /\ trace[i + 1].ev = "send"
                /\ trace[i + 1].conn_id = trace[i].conn_id
                /\ trace[i + 1].sender = trace[i].sender

\* C14 witness: of three Requests enqueued (a Play of the second connection, a
\* Play of the first, a Shutdown) the loop has answered the first, now holds the
\* second and has the third still waiting.
C14_Witness ==
    /\ Len(enq) = 3
    /\ enq[1].request = "Play" /\ enq[2].request = "Play"
    /\ enq[3].request = "Shutdown"
    /\ enq[1].sender = 2 /\ enq[2].sender = 1
    /\ Len(Sends) = 1
    /\ pc = "call"
    /\ cur = <<enq[2]>>
    /\ mailbox = <<enq[3]>>

\* C15 (as stated): when a Shutdown Request of connection c makes the loop stop,
\* the handle the loop shuts down after its delay is the send-handle of c: of the
\* Request the loop received last.
C15_ShutsDownRequestersHandle ==
    \A i \in 1..Len(trace) :
        trace[i].ev = "shutdown" =>
            trace[i].sender = Recvs[Len(RecvsOf(SubSeq(trace, 1, i)))].sender

\* C15 (amended): the handle the loop shuts down after its delay is the
\* send-handle of the first Request the loop ever received, whatever connection
\* the Shutdown Request came from; the handle closed when the Shutdown is
\* completed is the one of the connection the Shutdown came from.
C15_ShutsDownFirstHandle ==
    /\ (pc \in {"call", "check"} /\ Recvs # <<>>) => ws_sender = <<Recvs[1].sender>>
    /\ \A i \in 1..Len(trace) :
          /\ trace[i].ev = "shutdown" =>
                /\ trace[i].sender = Recvs[1].sender
                /\ trace[i].sender = enq[1].sender
          /\ trace[i].ev = "close" =>
                /\ trace[i].sender = Recvs[Len(Recvs)].sender
                /\ Recvs[Len(Recvs)].req = "Shutdown"

\* C15 witness: the Shutdown came from the second connection and the loop has
\* shut down the handle of the first, whose Play it had received before.
C15_Witness ==
    /\ Len(Recvs) = 2
    /\ Recvs[1].sender = 1 /\ Recvs[1].req = "Play"
    /\ Recvs[2].sender = 2 /\ Recvs[2].req = "Shutdown"
    /\ \E i \in 1..Len(trace) : trace[i].ev = "shutdown" /\ trace[i].sender = 1
    /\ \E i \in 1..Len(trace) : trace[i].ev = "close" /\ trace[i].sender = 2

\* C16: a Response send that fails in complete is logged and ignored.  The
\* failure is logged as an error; the send is not tried again (one send per
\* Request received); after a failed send for a Play the flag stays clear and
\* the next event of the loop is the receive of the next Request; after a
\* failed send for a Shutdown the flag is set, the close follows at once and the
\* loop leaves through its shutdown of the listener.
C16_FailedSendLoggedAndIgnored ==
    \A i \in 1..Len(trace) :
        (trace[i].ev = "send" /\ ~trace[i].ok) =>
            /\ Log("error", trace[i].conn_id, "error sending response") \in logs
            /\ i > 1
            /\ trace[i - 1].ev = "recv"
            /\ trace[i - 1].req = "Play" =>
                  /\ i < Len(trace) => trace[i + 1].ev = "recv"
                  /\ i = Len(trace) => ~shutdown /\ pc \in {"check", "recv"}
            /\ trace[i - 1].req = "Shutdown" =>
                  /\ shutdown
                  /\ i < Len(trace)
                  /\ trace[i + 1].ev = "close"
                  /\ pc \in {"check", "exit", "done"}
                  /\ pc \in {"exit", "done"} =>
                        /\ i + 1 < Len(trace)
                        /\ trace[i + 2].ev = "shutdown"

\* C16 witness: the sends for a Play and for the Shutdown behind it have both
\* failed, and the loop has gone on from the first to the second and then out.
C16_Witness ==
    /\ Len(Recvs) = 2
    /\ Recvs[1].req = "Play" /\ Recvs[2].req = "Shutdown"
    /\ Len(Sends) = 2
    /\ ~Sends[1].ok /\ ~Sends[2].ok
    /\ pc = "done"

\* A Close, Error or Timeout callback of connection t, as the transport or the
\* peer sets it off.
LifecycleCallback(t) == OnClose(t) \/ OnError(t) \/ OnTimeout(t)
\* The event loop carries out a close or a shutdown, which calls on_close or
\* on_shutdown on the handlers concerned.
LifecycleCommand == ProcessCommand /\ Head(queue).signal \in {"Close", "Shutdown"}

\* C17: a Close, Error, Timeout or Shutdown lifecycle event on a server
\* connection is only logged.  The step that reports it leaves the mailbox and
\* what was enqueued, the Worker Loop (its position, its request, its saved
\* handle, the shutting-down flag, currently playing, its events) and the
\* ConnectionId allocator unchanged and only adds to the log; a callback on one
\* connection moreover leaves the listener running, asks nothing of the event
\* loop, and leaves every other connection and what was written to it as it is.
C17_LifecycleEventOnlyLogged ==
    [][/\ ((\E t \in Tokens : LifecycleCallback(t)) \/ LifecycleCommand) =>
             /\ UNCHANGED <<mailbox, enq, rx_alive, pc, cur, ws_sender, shutdown,
                            currently_playing, trace, next_conn_id, main_state>>
             /\ logs \subseteq logs'
             /\ Len(comms') = Len(comms)
             /\ \A u \in Tokens : comms'[u].id = comms[u].id
        /\ \A t \in Tokens : LifecycleCallback(t) =>
             /\ listener' = listener
             /\ listener = "running"
             /\ UNCHANGED <<queue, outbox, comms>>
             /\ \E l \in logs' : l[2] = comms[t].id
             /\ \A u \in Tokens \ {t} : conn_state'[u] = conn_state[u]
      ]_vars

\* C17 witness: the first connection was closed by its peer and the Close was
\* logged; the listener runs on, the worker was asked nothing but the Play of
\* the second connection, and that Play has been answered.
C17_Witness ==
    /\ Len(comms) = 2
    /\ conn_state[1] = "closed"
    /\ Log("info", comms[1].id, "Close") \in logs
    /\ listener = "running"
    /\ ~shutdown
    /\ enq = <<[request |-> "Play", conn_id |-> comms[2].id, sender |-> 2]>>
    /\ outbox[2] = <<Encode(MsgOk)>>
    /\ next_conn_id = 2

\* C18: once the Worker Loop has dequeued a Shutdown and has handed its one
\* shutdown request to the running listener, the listener thread ends by that
\* shutdown and server main returns: when server main is no longer joining,
\* the loop has exited having requested the shutdown exactly once, the listener
\* has stopped and main has returned normally.
C18_ShutdownEndsServer ==
    (/\ \E i \in 1..Len(trace) : trace[i].ev = "shutdown" /\ trace[i].ok
     /\ main_state # "joining")
       => /\ pc \in {"exit", "done"}
          /\ Len(SelectSeq(trace, LAMBDA e : e.ev = "shutdown")) = 1
          /\ listener = "stopped"
          /\ main_state = "returned"

\* C19: round trip.  Every Message, encoded as send_json_message encodes it and
\* decoded as on_message decodes a frame, gives the same Message back, and two
\* different Messages never have the same encoding; so the frame the client
\* has sent reads back as the message it made from its command.
C19_RoundTrip ==
    /\ \A m \in Message : Decode(Encode(m)) = m
    /\ \A m1, m2 \in Message : Encode(m1) = Encode(m2) => m1 = m2
    /\ \A i \in 1..Len(csent) :
          /\ Decode(csent[i]) = message[1]
          /\ Decode(csent[i]) # DecodeError

\* C19 witness: the client has encoded and sent its Play, and its handler has
\* decoded the frame of the Response that came back.
C19_Witness ==
    /\ csent = <<Encode(MsgPlay)>>
    /\ second_ev = <<WSMsg("Message", MsgOk)>>
    /\ result = <<Ok>>

\* C20: the Worker Loop leaves its receive loop only by handling a Shutdown.
\* Its mailbox always has a live sender (the player thread's own), so recv never
\* fails as disconnected; and when the loop has been left, the flag is set and
\* the last Request received was a Shutdown, whose shutdown of the listener the
\* loop has requested.
C20_LoopLeavesOnlyByShutdown ==
    /\ MailboxSenders # {}
    /\ pc \in {"exit", "done"} =>
          /\ shutdown
          /\ Recvs # <<>>
          /\ Recvs[Len(Recvs)].req = "Shutdown"
          /\ \E i \in 1..Len(trace) : trace[i].ev = "shutdown"

\* C20 witness: the listener thread, and with it the Server handler and every
\* connection, is gone, and the loop, having answered a Play, waits in recv.
C20_Witness ==
    /\ listener = "panicked"
    /\ main_state = "joining"
    /\ "Server.sender" \notin MailboxSenders
    /\ Len(Recvs) = 1
    /\ Len(Sends) = 1
    /\ pc = "recv"
    /\ mailbox = <<>>
    /\ ~shutdown

\* C21: whenever a connection handler forwards a decoded Request to the worker
\* mailbox, the receiver of the mailbox still exists: the Request is enqueued
\* and the listener runs on, also for a Request that arrives after the Worker
\* Loop has left and before the listener has stopped.
C21_ForwardNeverPanics ==
    [][\A t \in Tokens : \A f \in Frames :
          (Decode(f).kind = "Request" /\ OnMessage(t, f)) =>
             /\ rx_alive
             /\ listener' = "running"
             /\ Len(enq') = Len(enq) + 1]_vars

\* C22: whenever the Worker Loop finds its flag set after handling a Request,
\* the saved handle ws_sender is there, so the expect never panics; the flag is
\* set only by a Shutdown request and is never cleared.  From the receive of a
\* Request to the check after it a handle is saved; the loop never panics; the
\* flag is set exactly when the call on a received Shutdown has been made (the
\* close that complete issues for it is in the loop's events), and then the
\* Request received last is that Shutdown.
C22_SavedHandlePresentAtShutdown ==
    /\ pc \in {"call", "check"} => ws_sender # <<>>
    /\ \A i \in 1..Len(trace) : trace[i].ev # "panic"
    /\ shutdown <=> \E i \in 1..Len(trace) : trace[i].ev = "close"
    /\ shutdown =>
          /\ Recvs # <<>>
          /\ Recvs[Len(Recvs)].req = "Shutdown"
          /\ pc \in {"check", "exit", "done"}
    /\ pc \in {"exit", "done"} => shutdown

\* C22 witness: the loop is at its check with the flag set by the Shutdown of
\* the second connection, and the handle it saved is the first connection's.
C22_Witness ==
    /\ pc = "check"
    /\ shutdown
    /\ cur # <<>>
    /\ cur[1].request = "Shutdown"
    /\ cur[1].sender = 2
    /\ ws_sender = <<1>>

\* C23: whenever the client's consumer receives the Open event, the factory has
\* already stored the connection's sender in the slot, so the Client::send that
\* follows transmits the Request and never takes the branch that returns Ok
\* without sending.  An Open queued or received implies a stored sender; the
\* send is reached only with a stored sender; and past a send that returned Ok
\* exactly the Request has been sent.
C23_SenderStoredBeforeOpen ==
    /\ (\E i \in 1..Len(recv_channel) : recv_channel[i].ev = "Open")
          => sender_slot # <<>>
    /\ first_ev = <<WSMsg("Open", NoMsg)>> => sender_slot # <<>>
    /\ cpc = "send" => sender_slot # <<>>
    /\ cpc = "recv2" => csent = <<Encode(message[1])>>
    /\ second_ev # <<>> => csent = <<Encode(message[1])>>

\* C23 witness: Open was received and the send after it has transmitted the
\* Request through the stored sender.
C23_Witness ==
    /\ first_ev = <<WSMsg("Open", NoMsg)>>
    /\ sender_slot = <<1>>
    /\ cpc = "recv2"
    /\ csent = <<Encode(MsgPlay)>>

\* C24: Client::close keeps the lock of the sender slot while it joins the
\* network thread, and never deadlocks against that thread: whenever client
\* main is at its teardown, the network thread's one acquisition of the lock,
\* in the connection factory, is over (or the thread ended without it), so the
\* thread never waits for the lock that close holds.
C24_CloseNeverDeadlocks ==
    /\ cpc \in {"drop", "join"} => net_thread \notin {"connecting", "factory"}
    /\ ~(SenderLockedByClose /\ net_thread = "factory")
    /\ net_thread \in {"connecting", "factory"} => cpc \in {"recv1"}

\* C24 witness: close holds the lock and waits in its join while the network
\* thread, its factory long done, still runs.
C24_Witness ==
    /\ SenderLockedByClose
    /\ net_thread = "running"
    /\ sender_slot = <<1>>
    /\ cclosed = 1

\* C25: a Message::Response that the server receives on a connection is
\* ignored.  The step that handles it enqueues nothing into the mailbox, asks
\* the event loop for no send, close or shutdown, writes nothing to any
\* connection, leaves every connection's state, the listener and the Worker
\* Loop as they are, and only logs the warning.
C25_InboundResponseIgnored ==
    [][\A t \in Tokens : \A f \in Frames :
          (Decode(f).kind = "Response" /\ OnMessage(t, f)) =>
             /\ UNCHANGED <<mailbox, enq, queue, outbox, conn_state, comms, listener,
                            rx_alive, pc, cur, ws_sender, shutdown, currently_playing,
                            trace, next_conn_id, main_state>>
             /\ logs' = logs \cup {Log("warn", comms[t].id, "Ignoring unexpected")}
      ]_vars

\* C25 witness: the connection sent a Response, which was ignored with a
\* warning, and a Play, which alone was enqueued and answered; the connection
\* is still open.
C25_Witness ==
    /\ Len(comms) = 1
    /\ Log("warn", comms[1].id, "Ignoring unexpected") \in logs
    /\ ninbound = 2
    /\ enq = <<[request |-> "Play", conn_id |-> comms[1].id, sender |-> 1]>>
    /\ outbox[1] = <<Encode(MsgOk)>>
    /\ conn_state[1] = "open"
    /\ listener = "running"
    /\ ~shutdown

==========================================================================
